---- MODULE Spec2Model ----
(***************************************************************************)
(* Fetch resilience and fallback orchestration of universal-scraper:       *)
(*   providers/annas.ts      AnnasProvider.scrape (the fallback walker)    *)
(*   lib/playwrightFetcher   fetchWithPlaywright (two variants in the tree) *)
(*   lib/fetcher             fetchHTML (two variants in the tree)          *)
(*   providers/generic.ts    GenericProvider.scrape                        *)
(*                                                                         *)
(* Strings are sequences of tokens (a token is a run of characters that    *)
(* the code never splits); an Error is a record [name, message].           *)
(***************************************************************************)
EXTENDS Integers, Sequences, FiniteSets, TLC

\* null / undefined of a string-typed variable (a URL or a message)
Null == <<"null">>
\* null of a value-typed variable
JNull == [t |-> "null"]
\* null of the browser handle; a launched browser is a positive number
NoBrowser == 0
\* the value of a frame variable when no call of its kind is made: no frames
NoCalls == <<>>

\* ---------------------------------------------------------------- bounds
\* HTTP responses of one walker run that are neither the plain failure (404)
\* nor the plain success (200 with a full page)
MaxOdd == 1

\* concurrent calls of fetchWithPlaywright in flight
MaxCallers == 2
\* responses that arrive during one page load
MaxResponses == 2
Callers == 1..MaxCallers

\* ------------------------------------------------------- program constants
MAX_RETRIES == 3
maxRetries == 2
SwapTries == 2
SlashTries == 2
BlockFloor == 2000
FetchBackoffBase == 500
WalkerBackoffBase == 400

MIRROR_ORIGINS ==
  << <<"https:", "//", "annas-archive.li">>,
     <<"https:", "//", "annas-archive.org">>,
     <<"https:", "//", "annas-archive.se">> >>

\* ------------------------------------------------------------------ URLs
SchemeTok == {"https:", "http:"}
HostTok == {"annas-archive.org", "annas-archive.li", "annas-archive.se", "example.com"}
PathTok == {"/", "/md5", "/xyz", "/search"}
QueryTok == {"?q=1"}
HashTok == {"#top"}

\* new URL(s) throws unless s is scheme "//" host ...
Parsable(s) ==
  /\ s # Null
  /\ Len(s) >= 3
  /\ s[1] \in SchemeTok
  /\ s[2] = "//"
  /\ s[3] \in HostTok

RECURSIVE TakeWhile(_, _)
TakeWhile(s, S) ==
  IF s = <<>> \/ Head(s) \notin S THEN <<>> ELSE <<Head(s)>> \o TakeWhile(Tail(s), S)

DropN(s, n) == SubSeq(s, n + 1, Len(s))

\* the fields of new URL(s) that the code reads
ParseUrl(s) ==
  LET rest == DropN(s, 3)
      p    == TakeWhile(rest, PathTok)
      r2   == DropN(rest, Len(p))
      q    == TakeWhile(r2, QueryTok)
      r3   == DropN(r2, Len(q))
      h    == TakeWhile(r3, HashTok)
  IN [protocol |-> s[1],
      host     |-> <<s[3]>>,
      origin   |-> <<s[1], "//", s[3]>>,
      pathname |-> IF p = <<>> THEN <<"/">> ELSE p,
      search   |-> q,
      hash     |-> h]

UrlToString(u) == u.origin \o u.pathname \o u.search \o u.hash

\* variant: the fragment is not carried over to the mirror
normalizeDropsHash(original, candidateOrigin) ==
  IF Parsable(original)
    THEN IF candidateOrigin = Null
           THEN UrlToString(ParseUrl(original))
           ELSE ParseUrl(candidateOrigin).origin
                  \o ParseUrl(original).pathname
                  \o ParseUrl(original).search
    ELSE IF candidateOrigin # Null THEN candidateOrigin \o original ELSE original

normalizeUrlCandidate(original, candidateOrigin) ==
  IF Parsable(original)
    THEN IF candidateOrigin = Null
           THEN UrlToString(ParseUrl(original))
           ELSE ParseUrl(candidateOrigin).origin
                  \o ParseUrl(original).pathname
                  \o ParseUrl(original).search
                  \o ParseUrl(original).hash
    ELSE IF candidateOrigin # Null THEN candidateOrigin \o original ELSE original

\* scrape step 2: (u.protocol === "https:" ? "http:" : "https:") + "//" + u.host + ...
SwappedUrl(s) ==
  LET u == ParseUrl(s)
  IN <<IF u.protocol = "https:" THEN "http:" ELSE "https:">> \o <<"//">>
       \o u.host \o u.pathname \o u.search \o u.hash

EndsWithSlash(p) == p # <<>> /\ p[Len(p)] = "/"

\* scrape step 3: trailing slash added if absent, removed if present
SlashVariant(s) ==
  LET u == ParseUrl(s)
  IN IF EndsWithSlash(u.pathname)
       THEN u.origin \o SubSeq(u.pathname, 1, Len(u.pathname) - 1) \o u.search \o u.hash
       ELSE u.origin \o u.pathname \o <<"/">> \o u.search \o u.hash

\* !url : undefined and "" are falsy
Falsy(u) == u = Null \/ u = <<>>

UrlArg ==
  { Null,
    <<>>,
    <<"https:", "//", "annas-archive.org", "/md5", "/xyz">>,
    <<"http:", "//", "annas-archive.li", "/search", "/", "?q=1", "#top">>,
    <<"annas-archive.org", "/md5", "/xyz">> }

\* ---------------------------------------------------------------- bodies
\* A body is a word followed by a run of one filler character.  The state
\* holds the word as one string; Spell gives its characters.
Spell(w) ==
  CASE w = "" -> <<>>
    [] w = "hello" -> <<"h", "e", "l", "l", "o">>
    [] w = "captch" -> <<"c", "a", "p", "t", "c", "h">>
    [] w = "Access-Denied" -> <<"A", "c", "c", "e", "s", "s", "-", "D", "e", "n", "i", "e", "d">>
    [] w = "JUST A MOMEN" -> <<"J", "U", "S", "T", " ", "A", " ", "M", "O", "M", "E", "N">>
    [] w = "ddos guard" -> <<"d", "d", "o", "s", " ", "g", "u", "a", "r", "d">>
    [] w = "ddos-guard" -> <<"d", "d", "o", "s", "-", "g", "u", "a", "r", "d">>
    [] w = "<p>ddos-guard!" -> <<"<", "p", ">", "d", "d", "o", "s", "-", "g", "u", "a", "r", "d", "!">>
    [] w = "DDOS-GUARD" -> <<"D", "D", "O", "S", "-", "G", "U", "A", "R", "D">>
    [] w = "<p>DDOS-GUARD!" -> <<"<", "p", ">", "D", "D", "O", "S", "-", "G", "U", "A", "R", "D", "!">>
    [] w = "DdOs-gUaRd" -> <<"D", "d", "O", "s", "-", "g", "U", "a", "R", "d">>
    [] w = "<p>DdOs-gUaRd!" -> <<"<", "p", ">", "D", "d", "O", "s", "-", "g", "U", "a", "R", "d", "!">>
    [] w = "access denied" -> <<"a", "c", "c", "e", "s", "s", " ", "d", "e", "n", "i", "e", "d">>
    [] w = "<p>access denied!" -> <<"<", "p", ">", "a", "c", "c", "e", "s", "s", " ", "d", "e", "n", "i", "e", "d", "!">>
    [] w = "ACCESS DENIED" -> <<"A", "C", "C", "E", "S", "S", " ", "D", "E", "N", "I", "E", "D">>
    [] w = "<p>ACCESS DENIED!" -> <<"<", "p", ">", "A", "C", "C", "E", "S", "S", " ", "D", "E", "N", "I", "E", "D", "!">>
    [] w = "AcCeSs dEnIeD" -> <<"A", "c", "C", "e", "S", "s", " ", "d", "E", "n", "I", "e", "D">>
    [] w = "<p>AcCeSs dEnIeD!" -> <<"<", "p", ">", "A", "c", "C", "e", "S", "s", " ", "d", "E", "n", "I", "e", "D", "!">>
    [] w = "captcha" -> <<"c", "a", "p", "t", "c", "h", "a">>
    [] w = "<p>captcha!" -> <<"<", "p", ">", "c", "a", "p", "t", "c", "h", "a", "!">>
    [] w = "CAPTCHA" -> <<"C", "A", "P", "T", "C", "H", "A">>
    [] w = "<p>CAPTCHA!" -> <<"<", "p", ">", "C", "A", "P", "T", "C", "H", "A", "!">>
    [] w = "CaPtChA" -> <<"C", "a", "P", "t", "C", "h", "A">>
    [] w = "<p>CaPtChA!" -> <<"<", "p", ">", "C", "a", "P", "t", "C", "h", "A", "!">>
    [] w = "verify you are human" -> <<"v", "e", "r", "i", "f", "y", " ", "y", "o", "u", " ", "a", "r", "e", " ", "h", "u", "m", "a", "n">>
    [] w = "<p>verify you are human!" -> <<"<", "p", ">", "v", "e", "r", "i", "f", "y", " ", "y", "o", "u", " ", "a", "r", "e", " ", "h", "u", "m", "a", "n", "!">>
    [] w = "VERIFY YOU ARE HUMAN" -> <<"V", "E", "R", "I", "F", "Y", " ", "Y", "O", "U", " ", "A", "R", "E", " ", "H", "U", "M", "A", "N">>
    [] w = "<p>VERIFY YOU ARE HUMAN!" -> <<"<", "p", ">", "V", "E", "R", "I", "F", "Y", " ", "Y", "O", "U", " ", "A", "R", "E", " ", "H", "U", "M", "A", "N", "!">>
    [] w = "VeRiFy yOu aRe hUmAn" -> <<"V", "e", "R", "i", "F", "y", " ", "y", "O", "u", " ", "a", "R", "e", " ", "h", "U", "m", "A", "n">>
    [] w = "<p>VeRiFy yOu aRe hUmAn!" -> <<"<", "p", ">", "V", "e", "R", "i", "F", "y", " ", "y", "O", "u", " ", "a", "R", "e", " ", "h", "U", "m", "A", "n", "!">>
    [] w = "just a moment" -> <<"j", "u", "s", "t", " ", "a", " ", "m", "o", "m", "e", "n", "t">>
    [] w = "<p>just a moment!" -> <<"<", "p", ">", "j", "u", "s", "t", " ", "a", " ", "m", "o", "m", "e", "n", "t", "!">>
    [] w = "JUST A MOMENT" -> <<"J", "U", "S", "T", " ", "A", " ", "M", "O", "M", "E", "N", "T">>
    [] w = "<p>JUST A MOMENT!" -> <<"<", "p", ">", "J", "U", "S", "T", " ", "A", " ", "M", "O", "M", "E", "N", "T", "!">>
    [] w = "JuSt a mOmEnT" -> <<"J", "u", "S", "t", " ", "a", " ", "m", "O", "m", "E", "n", "T">>
    [] w = "<p>JuSt a mOmEnT!" -> <<"<", "p", ">", "J", "u", "S", "t", " ", "a", " ", "m", "O", "m", "E", "n", "T", "!">>

\* words that contain a signature in some letter case, alone and inside
\* markup, and words that contain none
SigWords ==
  { "ddos-guard", "<p>ddos-guard!", "DDOS-GUARD", "<p>DDOS-GUARD!",
    "DdOs-gUaRd", "<p>DdOs-gUaRd!", "access denied", "<p>access denied!",
    "ACCESS DENIED", "<p>ACCESS DENIED!", "AcCeSs dEnIeD",
    "<p>AcCeSs dEnIeD!", "captcha", "<p>captcha!", "CAPTCHA",
    "<p>CAPTCHA!", "CaPtChA", "<p>CaPtChA!", "verify you are human",
    "<p>verify you are human!", "VERIFY YOU ARE HUMAN",
    "<p>VERIFY YOU ARE HUMAN!", "VeRiFy yOu aRe hUmAn",
    "<p>VeRiFy yOu aRe hUmAn!", "just a moment", "<p>just a moment!",
    "JUST A MOMENT", "<p>JUST A MOMENT!", "JuSt a mOmEnT",
    "<p>JuSt a mOmEnT!" }
CleanWords ==
  { "", "hello", "captch", "Access-Denied", "JUST A MOMEN", "ddos guard" }

Upper == <<"A", "B", "C", "D", "E", "F", "G", "H", "I", "J", "K", "L", "M", "N", "O", "P", "Q", "R", "S", "T", "U", "V", "W", "X", "Y", "Z">>
Lower == <<"a", "b", "c", "d", "e", "f", "g", "h", "i", "j", "k", "l", "m", "n", "o", "p", "q", "r", "s", "t", "u", "v", "w", "x", "y", "z">>

\* variant: the body is searched as it is
ToLowerIdentity(w) == w

Letters == {Upper[k] : k \in DOMAIN Upper}
LowerMap == [c \in Letters |-> Lower[CHOOSE k \in DOMAIN Upper : Upper[k] = c]]
\* String.prototype.toLowerCase
LowerChar(c) == IF c \in Letters THEN LowerMap[c] ELSE c
ToLower(w) == [j \in DOMAIN w |-> LowerChar(w[j])]

\* String.prototype.includes
Includes(s, sub) ==
  \E k \in 0..(Len(s) - Len(sub)) : SubSeq(s, k + 1, k + Len(sub)) = sub

Signatures ==
  { <<"d", "d", "o", "s", "-", "g", "u", "a", "r", "d">>,
    <<"a", "c", "c", "e", "s", "s", " ", "d", "e", "n", "i", "e", "d">>,
    <<"c", "a", "p", "t", "c", "h", "a">>,
    <<"v", "e", "r", "i", "f", "y", " ", "y", "o", "u", " ", "a", "r", "e", " ", "h", "u", "m", "a", "n">>,
    <<"j", "u", "s", "t", " ", "a", " ", "m", "o", "m", "e", "n", "t">> }

\* the length of every word, computed once
WordLens == [w \in SigWords \cup CleanWords |-> Len(Spell(w))]
WordLen(w) == WordLens[w]
BodyLen(b) == WordLen(b.word) + b.fill
\* html.trim().length
TrimLen(b) ==
  IF b.pad = " " THEN WordLen(b.word) ELSE WordLen(b.word) + b.fill

LongestSignature ==
  CHOOSE n \in {Len(g) : g \in Signatures} : \A g \in Signatures : Len(g) <= n

\* the start of the filler run: as much of it as a signature could reach into
FillHead(b) ==
  [j \in 1..(IF b.fill < LongestSignature THEN b.fill ELSE LongestSignature) |-> b.pad]

isBlocked(b) ==
  LET lower == ToLower(Spell(b.word) \o FillHead(b))
  IN \/ \E g \in Signatures : Includes(lower, g)
     \/ BodyLen(b) < BlockFloor

EmptyBody == [word |-> "", fill |-> 0, pad |-> "x"]
GoodBody == [word |-> "hello", fill |-> 4995, pad |-> "x"]
Bodies ==
  { EmptyBody,
    GoodBody,
    [word |-> "", fill |-> 3, pad |-> " "],
    [word |-> "hello", fill |-> 95, pad |-> "x"],
    [word |-> "CAPTCHA", fill |-> 4993, pad |-> "x"] }


\* isBlocked of every body a response can carry, computed once
BlockedBody == [b \in Bodies |-> isBlocked(b)]

\* -------------------------------------------------------- HTTP responses
\* what one axios GET yields: a network error, or a status with a body
NetErr == [t |-> "neterr"]
Resp(s, b) == [t |-> "resp", status |-> s, body |-> b]
PlainFail == Resp(404, EmptyBody)
PlainOk == Resp(200, GoodBody)
Responses ==
  {NetErr, PlainFail, Resp(400, GoodBody), Resp(399, GoodBody)}
    \cup {Resp(200, b) : b \in Bodies}
IsOdd(r) == r \notin {PlainFail, PlainOk}

\* page.content() of a navigation that succeeded
RenderBodies == {GoodBody, [word |-> "hello", fill |-> 95, pad |-> "x"]}

\* ----------------------------------------------------------------- errors
Err(n, m) == [name |-> n, message |-> m]
\* String(err)
ErrToString(e) == <<e.name, ": ">> \o e.message
StatusTok(s) ==
  CASE s = 200 -> "200" [] s = 399 -> "399" [] s = 400 -> "400" [] s = 404 -> "404"

\* ----------------------------------------------------------------- values
JStr(b) == [t |-> "string", body |-> b]
JObj(b) == [t |-> "object", html |-> b, apiCapture |-> <<>>]
\* !!v : null and "" are falsy, every object is truthy
Truthy(v) ==
  CASE v.t = "null" -> FALSE
    [] v.t = "string" -> BodyLen(v.body) > 0
    [] OTHER -> TRUE

NoRet == [t |-> "none"]
RetVal(v) == [t |-> "value", v |-> v]
RetThrow(e) == [t |-> "throw", err |-> e]

\* ------------------------------------------------------------ deployment
\* which variant of each module the build resolves, the process environment
\* (VERCEL, DISABLE_PLAYWRIGHT) and which browser engines can be launched.
\* The singleton variant reads neither VERCEL nor DISABLE_PLAYWRIGHT, so one
\* deployment of it with DISABLE_PLAYWRIGHT set is enough; the per-call
\* variant launches nothing when DISABLE_PLAYWRIGHT is set.
Configs ==
  { c \in [fetcher : {"single", "retry"},
           orch    : {"singleton", "perCall"},
           vercel  : BOOLEAN,
           disable : BOOLEAN,
           full    : BOOLEAN,
           core    : BOOLEAN] :
      /\ (c.orch = "singleton" => ~c.vercel)
      /\ (c.orch = "singleton" /\ c.disable => c.full /\ ~c.core)
      /\ (c.orch = "perCall" /\ c.disable => ~c.vercel /\ ~c.full /\ ~c.core) }

\* ------------------------------------------------------- API capture
\* the URLs of the responses a page load can bring
ApiUrl == <<"https:", "//", "example.com", "/api/", "items">>
JsonUrl == <<"https:", "//", "example.com", "/data", ".json">>
JsonQueryUrl == <<"https:", "//", "example.com", "/data", ".json", "?q=1">>
GraphqlUrl == <<"https:", "//", "example.com", "/", "graphql">>
PageUrl == <<"https:", "//", "example.com", "/xyz">>
ReqUrls == {ApiUrl, JsonUrl, JsonQueryUrl, GraphqlUrl, PageUrl}

\* reqUrl.includes("/api/") || reqUrl.endsWith(".json") || reqUrl.includes("graphql")
CaptureMatches(reqUrl) ==
  \/ \E k \in DOMAIN reqUrl : reqUrl[k] = "/api/"
  \/ reqUrl[Len(reqUrl)] = ".json"
  \/ \E k \in DOMAIN reqUrl : reqUrl[k] = "graphql"

\* a response as the listener sees it: req is FALSE when res.request() or
\* req.url() throws; body is what the body can be read as: "json" (res.json()
\* resolves), "text" (res.json() rejects, res.text() resolves), "none" (both reject)
CapResponses ==
  [req : {TRUE}, url : ReqUrls, body : {"json", "text", "none"}]
    \cup {[req |-> FALSE, url |-> PageUrl, body |-> "none"]}

\* variant: no catch around res.text()
ListenerNoInnerCatch(res) ==
  IF ~res.req THEN [push |-> <<>>, raised |-> FALSE]
  ELSE IF ~CaptureMatches(res.url) THEN [push |-> <<>>, raised |-> FALSE]
  ELSE IF res.body = "json" THEN [push |-> <<[url |-> res.url, json |-> TRUE]>>, raised |-> FALSE]
  ELSE IF res.body = "text" THEN [push |-> <<[url |-> res.url, text |-> TRUE]>>, raised |-> FALSE]
  ELSE [push |-> <<>>, raised |-> TRUE]

\* the listener of page.on("response"): what it pushes to apiCapture and
\* whether an exception leaves it
Listener(res) ==
  IF ~res.req THEN [push |-> <<>>, raised |-> FALSE]
  ELSE IF ~CaptureMatches(res.url) THEN [push |-> <<>>, raised |-> FALSE]
  ELSE IF res.body = "json" THEN [push |-> <<[url |-> res.url, json |-> TRUE]>>, raised |-> FALSE]
  ELSE IF res.body = "text" THEN [push |-> <<[url |-> res.url, text |-> TRUE]>>, raised |-> FALSE]
  ELSE [push |-> <<>>, raised |-> FALSE]

\* the call before it is made
CapIdle ==
  [pc |-> "idle", enableApiCapture |-> FALSE, arrived |-> <<>>, handled |-> <<>>,
   apiCapture |-> <<>>, raised |-> FALSE, nav |-> [t |-> "none"], http |-> [t |-> "none"],
   ret |-> [t |-> "none"]]

\* --------------------------------------------- concurrent walker runs
\* the two calls of AnnasProvider.scrape that run side by side
Runs == {1, 2}

\* the local variables of one call of scrape before the call is made; made
\* is a history of the fetch calls the run issued and what each returned
RunIdle ==
  [pc |-> "idle", url |-> Null, waiting |-> FALSE, attemptUrl |-> Null, tag |-> Null, i |-> 0,
   attempts |-> <<>>, lastErrMsg |-> Null, fetchResult |-> [t |-> "null"],
   finalAttemptUrl |-> Null, usedFallbackOrigin |-> Null, made |-> <<>>,
   outcome |-> [t |-> "none"]]

VARIABLES
  env,                \* the deployment, fixed at start
  kind, url,          \* the entry point called and its argument
  outcome,            \* what the entry point returned or threw
  wpc, i,             \* AnnasProvider.scrape: position and loop index
  attempts, lastErrMsg, fetchResult, finalAttemptUrl, usedFallbackOrigin,
  opc, ourl, ocap, otag, oerr, oret,   \* fetchWithPlaywright frame
  fpc, furl, attempt, lastError, fret, \* fetchHTML frame
  browserSingleton,   \* the module-level browser handle: a browser id or NoBrowser
  live,               \* the browser processes that are running (ids)
  launched,           \* number of browsers launched so far; the last id given
  openCtx, openPages, \* browsing contexts and pages that are open
  engineTries,        \* history: the engine launches of the current call
  renderOks,          \* history: navigations of the run that delivered a page
  html, blocked,      \* isBlocked called on its own: argument and result
  cpc, cbrowser,      \* concurrent callers of fetchWithPlaywright: position, local handle
  failedHandles,      \* history: the browser handles on which newContext threw
  capRun,             \* one render call with its response listener
  runs,               \* concurrent calls of AnnasProvider.scrape: the closure of each
  trailState,         \* history: the walker state that made each trail entry
  callTries,          \* history: physical tries of the current orchestration
  physTries,          \* history: number of physical tries of the run
  walkerCalls,        \* history: fetch calls the walker has made
  lastResp,           \* history: the last HTTP response received
  walkSleeps,         \* history: delays of the walker loop in progress
  fetchSleeps,        \* history: delays of the fetchHTML loop in progress
  odd                 \* history: odd responses used by the run

walkerVars == <<wpc, i, attempts, lastErrMsg, fetchResult, finalAttemptUrl, usedFallbackOrigin, trailState>>
orchVars == <<opc, ourl, ocap, otag, oerr, oret>>
fetchVars == <<fpc, furl, attempt, lastError, fret>>
histVars == <<callTries, physTries, walkerCalls, lastResp, walkSleeps, fetchSleeps, odd>>
resVars == <<live, launched, openCtx, openPages, engineTries, renderOks>>
auxVars == <<html, blocked, cpc, cbrowser, failedHandles, capRun, runs>>
vars == <<env, kind, url, outcome, walkerVars, orchVars, fetchVars, browserSingleton, histVars,
          resVars, auxVars>>

\* the state of the module after load, before any call
InitState ==
  /\ kind = "none"
  /\ url = Null
  /\ outcome = NoRet
  /\ wpc = "idle"
  /\ i = 0
  /\ attempts = <<>>
  /\ lastErrMsg = Null
  /\ fetchResult = JNull
  /\ finalAttemptUrl = Null
  /\ usedFallbackOrigin = Null
  /\ opc = "none"
  /\ ourl = Null
  /\ ocap = FALSE
  /\ otag = Null
  /\ oerr = Err("", <<>>)
  /\ oret = NoRet
  /\ fpc = "none"
  /\ furl = Null
  /\ attempt = 0
  /\ lastError = Err("", <<>>)
  /\ fret = NoRet
  /\ browserSingleton = NoBrowser
  /\ live = {}
  /\ launched = 0
  /\ openCtx = 0
  /\ openPages = 0
  /\ engineTries = <<>>
  /\ renderOks = 0
  /\ trailState = <<>>
  /\ callTries = <<>>
  /\ physTries = 0
  /\ walkerCalls = 0
  /\ lastResp = NetErr
  /\ walkSleeps = <<>>
  /\ fetchSleeps = <<>>
  /\ odd = 0

Init ==
  /\ env \in Configs
  /\ InitState
  /\ html = EmptyBody
  /\ blocked = NoRet
  /\ cpc = NoCalls
  /\ cbrowser = NoCalls
  /\ failedHandles = {}
  /\ capRun = NoCalls
  /\ runs = NoCalls


\* one physical network try, as recorded in the history
Try(tier, ok) == [tier |-> tier, ok |-> ok]

\* ============================================================== fetchHTML
\* lib/fetcher, single-shot variant: what one response becomes
SingleShotResult(r) ==
  IF r.t = "neterr"
    THEN RetThrow(Err("AxiosError", <<"Network Error">>))
    ELSE IF r.status >= 400
      THEN RetThrow(Err("Error", <<"Target returned status ", StatusTok(r.status)>>))
      ELSE RetVal(JStr(r.body))

\* lib/fetcher, retrying variant: the body of the try block for one response
RetryTryResult(r) ==
  IF r.t = "neterr"
    THEN RetThrow(Err("AxiosError", <<"Network Error">>))
    ELSE IF r.status >= 400
      THEN RetThrow(Err("Error", <<"HTTP ", StatusTok(r.status)>>))
      ELSE IF BodyLen(r.body) = 0 \/ TrimLen(r.body) = 0
        THEN RetThrow(Err("Error", <<"Empty response body">>))
        ELSE IF BlockedBody[r.body]
          THEN RetThrow(Err("Error", <<"Protection page detected">>))
          ELSE RetVal(JStr(r.body))

\* variant: the delay doubles with every attempt
FetchBackoffDoubling(n) == FetchBackoffBase * 2 ^ (n - 1)

\* sleep(500 * attempt)
FetchBackoff(n) == FetchBackoffBase * n

\* the throw after the loop
FetchExhausted(e) ==
  Err("Error", <<"fetchHTML failed after ", "3", " attempts. Last error: ">> \o e.message)

\* variant: no guard in either variant
FetchNeverGuards == FALSE

\* the missing-URL guard exists in the retrying variant only
FetchGuards == env.fetcher = "retry"

FetchStart ==
  /\ fpc = "start"
  /\ IF FetchGuards /\ Falsy(furl)
       THEN /\ fret' = RetThrow(Err("Error", <<"fetchHTML: missing URL">>))
            /\ fpc' = "ret"
            /\ UNCHANGED attempt
       ELSE /\ fpc' = "get"
            /\ attempt' = 1
            /\ UNCHANGED fret
  /\ fetchSleeps' = <<>>
  /\ UNCHANGED <<env, auxVars, resVars, kind, url, outcome, walkerVars, orchVars, furl, lastError,
                 browserSingleton, callTries, physTries, walkerCalls, lastResp, walkSleeps, odd>>

\* one axios GET and everything up to the next await of a GET
FetchGet(r) ==
  /\ fpc = "get"
  /\ (kind = "annas" /\ IsOdd(r)) => odd < MaxOdd
  /\ odd' = IF kind = "annas" /\ IsOdd(r) THEN odd + 1 ELSE odd
  /\ physTries' = physTries + 1
  /\ lastResp' = r
  /\ IF env.fetcher = "single"
       THEN /\ fret' = SingleShotResult(r)
            /\ fpc' = "ret"
            /\ callTries' = Append(callTries, Try("http", SingleShotResult(r).t = "value"))
            /\ UNCHANGED <<attempt, lastError, fetchSleeps>>
       ELSE LET res == RetryTryResult(r)
            IN /\ callTries' = Append(callTries, Try("http", res.t = "value"))
               /\ IF res.t = "value"
                    THEN /\ fret' = res
                         /\ fpc' = "ret"
                         /\ UNCHANGED <<attempt, lastError, fetchSleeps>>
                    ELSE /\ lastError' = res.err
                         /\ fetchSleeps' = Append(fetchSleeps, FetchBackoff(attempt))
                         /\ attempt' = attempt + 1
                         /\ IF attempt + 1 <= MAX_RETRIES
                              THEN UNCHANGED <<fret, fpc>>
                              ELSE /\ fret' = RetThrow(FetchExhausted(res.err))
                                   /\ fpc' = "ret"
  /\ UNCHANGED <<env, auxVars, resVars, kind, url, outcome, walkerVars, orchVars, furl, browserSingleton,
                 walkerCalls, walkSleeps>>

\* a direct call of fetchHTML returns to its caller
FetchReturnTop ==
  /\ kind = "fetchHTML"
  /\ fpc = "ret"
  /\ outcome' = fret
  /\ fpc' = "none"
  /\ UNCHANGED <<env, auxVars, resVars, kind, url, walkerVars, orchVars, furl, attempt, lastError, fret,
                 browserSingleton, histVars>>

\* ==================================================== fetchWithPlaywright
InitError ==
  Err("Error", <<"Playwright browser failed to initialize (both playwright and playwright-core fallbacks failed)">>)
NavError == Err("TimeoutError", <<"page.goto: Timeout exceeded">>)

\* singleton variant: the throw of the outer catch when HTTP fails too
BothFailed(renderErr, httpErr) ==
  Err("Error", <<"Playwright failed: ">> \o ErrToString(renderErr)
                 \o <<"; HTTP fallback also failed: ">> \o ErrToString(httpErr))

\* per-call variant: the throw of the final fallback
AllAttemptsFailed(httpErr) ==
  Err("Error", <<"All attempts to render page failed. Last error: ">> \o httpErr.message)

\* enableApiCapture ? { html, apiCapture } : html
RenderValue(cap, b) == IF cap THEN JObj(b) ELSE JStr(b)

\* where the per-call variant goes first
FirstStage ==
  IF env.orch = "singleton" THEN "ensure"
  ELSE IF env.disable THEN "http"
  ELSE IF env.vercel THEN "serverless"
  ELSE "full"

\* variant: the first failed browser strategy goes straight to HTTP
NextStageHttp(st) == "http"

NextStage(st) ==
  CASE st = "serverless" -> "full"
    [] st = "full" -> "core2"
    [] st = "core2" -> "http"

StageAvailable(st) == IF st = "full" THEN env.full ELSE env.core

\* the engine a browser strategy launches
StageEngine(st) == IF st = "full" THEN "playwright" ELSE "sparticuz"

\* variant: the serverless binary is launched a second time
EnsureOrderTwice == <<"playwright", "sparticuz", "sparticuz">>

\* the engines ensurePlaywrightBrowser launches, in order
EnsureOrder == <<"playwright", "sparticuz">>

EngineWorks(e) == IF e = "playwright" THEN env.full ELSE env.core

EngineTry(e, ok) == [engine |-> e, ok |-> ok]

RECURSIVE LaunchAttempts(_)
\* the launches of one initialisation: each engine in turn until one yields a browser
LaunchAttempts(order) ==
  IF order = <<>> THEN <<>>
  ELSE IF EngineWorks(Head(order)) THEN <<EngineTry(Head(order), TRUE)>>
  ELSE <<EngineTry(Head(order), FALSE)>> \o LaunchAttempts(Tail(order))

OrchStart ==
  /\ opc = "start"
  /\ IF Falsy(ourl)
       THEN /\ oret' = RetThrow(Err("Error", <<"fetchWithPlaywright: missing url">>))
            /\ opc' = "ret"
       ELSE /\ opc' = FirstStage
            /\ UNCHANGED oret
  /\ callTries' = <<>>
  /\ engineTries' = <<>>
  /\ UNCHANGED <<env, auxVars, kind, url, outcome, walkerVars, ourl, ocap, otag, oerr, fetchVars,
                 browserSingleton, physTries, walkerCalls, lastResp, walkSleeps, fetchSleeps, odd,
                 live, launched, openCtx, openPages, renderOks>>

\* ensurePlaywrightBrowser, browser.newContext and context.newPage
OrchEnsure ==
  /\ opc = "ensure"
  /\ IF browserSingleton # NoBrowser
       THEN /\ opc' = "goto"
            /\ openCtx' = openCtx + 1
            /\ openPages' = openPages + 1
            /\ UNCHANGED <<browserSingleton, live, launched, engineTries, oerr>>
       ELSE LET tries == LaunchAttempts(EnsureOrder)
            IN /\ engineTries' = tries
               /\ IF tries[Len(tries)].ok
                    THEN /\ launched' = launched + 1
                         /\ live' = live \cup {launched + 1}
                         /\ browserSingleton' = launched + 1
                         /\ opc' = "goto"
                         /\ openCtx' = openCtx + 1
                         /\ openPages' = openPages + 1
                         /\ UNCHANGED oerr
                    ELSE /\ oerr' = InitError
                         /\ opc' = "http"
                         /\ UNCHANGED <<browserSingleton, live, launched, openCtx, openPages>>
  /\ UNCHANGED <<env, auxVars, kind, url, outcome, walkerVars, ourl, ocap, otag, oret, fetchVars,
                 histVars, renderOks>>

\* page.goto ... page.content, page.close and context.close, singleton variant
OrchGoto(ok, b) ==
  /\ opc = "goto"
  /\ callTries' = Append(callTries, Try("render", ok))
  /\ physTries' = physTries + 1
  /\ IF ok
       THEN /\ oret' = RetVal(RenderValue(ocap, b))
            /\ opc' = "ret"
            /\ openPages' = openPages - 1
            /\ openCtx' = openCtx - 1
            /\ renderOks' = renderOks + 1
            /\ UNCHANGED oerr
       ELSE /\ oerr' = NavError
            /\ opc' = "http"
            /\ UNCHANGED <<oret, openPages, openCtx, renderOks>>
  /\ UNCHANGED <<env, auxVars, kind, url, outcome, walkerVars, ourl, ocap, otag, fetchVars,
                 browserSingleton, walkerCalls, lastResp, walkSleeps, fetchSleeps, odd,
                 live, launched, engineTries>>

\* launchServerlessChromium / launchFullPlaywright / the core + sparticuz block:
\* launch, newPage, goto, content, and browser.close in the finally
OrchStage(ok, b) ==
  /\ opc \in {"serverless", "full", "core2"}
  /\ IF StageAvailable(opc)
       THEN /\ callTries' = Append(callTries, Try("render", ok))
            /\ physTries' = physTries + 1
            /\ launched' = launched + 1
            /\ engineTries' = Append(engineTries, EngineTry(StageEngine(opc), TRUE))
            /\ renderOks' = IF ok THEN renderOks + 1 ELSE renderOks
            /\ IF ok
                 THEN /\ oret' = RetVal(JStr(b))
                      /\ opc' = "ret"
                      /\ UNCHANGED oerr
                 ELSE /\ oerr' = NavError
                      /\ opc' = NextStage(opc)
                      /\ UNCHANGED oret
       ELSE /\ ~ok /\ b = GoodBody
            /\ opc' = NextStage(opc)
            /\ engineTries' = Append(engineTries, EngineTry(StageEngine(opc), FALSE))
            /\ UNCHANGED <<oret, oerr, callTries, physTries, launched, renderOks>>
  /\ UNCHANGED <<env, auxVars, kind, url, outcome, walkerVars, ourl, ocap, otag, fetchVars,
                 browserSingleton, walkerCalls, lastResp, walkSleeps, fetchSleeps, odd,
                 live, openCtx, openPages>>

\* httpFallback(url)
OrchHttp ==
  /\ opc = "http"
  /\ fpc = "none"
  /\ opc' = "httpwait"
  /\ fpc' = "start"
  /\ furl' = ourl
  /\ UNCHANGED <<env, auxVars, resVars, kind, url, outcome, walkerVars, ourl, ocap, otag, oerr, oret,
                 attempt, lastError, fret, browserSingleton, histVars>>

\* variant: only the render error is passed on
OrchHttpResultRenderOnly(r, renderErr) ==
  IF r.t = "value" THEN r ELSE RetThrow(renderErr)

\* what fetchWithPlaywright makes of the result of httpFallback
OrchHttpResult(r, renderErr) ==
  IF r.t = "value" THEN r
  ELSE IF env.orch = "singleton" THEN RetThrow(BothFailed(renderErr, r.err))
  ELSE IF env.disable THEN r
  ELSE RetThrow(AllAttemptsFailed(r.err))

OrchHttpReturn ==
  /\ opc = "httpwait"
  /\ fpc = "ret"
  /\ oret' = OrchHttpResult(fret, oerr)
  /\ opc' = "ret"
  /\ fpc' = "none"
  /\ UNCHANGED <<env, auxVars, resVars, kind, url, outcome, walkerVars, ourl, ocap, otag, oerr,
                 furl, attempt, lastError, fret, browserSingleton, histVars>>


\* ==================================================== AnnasProvider.scrape
Undef == "undefined"
FailedAttempt(u, msg) ==
  [attemptUrl |-> u, success |-> FALSE, error |-> msg, source |-> Undef, returnedType |-> Undef]
OkAttempt(u, src, ty) ==
  [attemptUrl |-> u, success |-> TRUE, error |-> Null, source |-> src, returnedType |-> ty]

\* the candidate URL of try number n (0-based) of a walker state
Candidate(st, n) ==
  CASE st = "original" -> url
    [] st = "swap" -> SwappedUrl(url)
    [] st = "slash" -> SlashVariant(url)
    [] st = "mirror" -> normalizeUrlCandidate(url, MIRROR_ORIGINS[n + 1])

Tag(st, n) ==
  CASE st = "original" -> <<"original">>
    [] st = "swap" -> <<"protocol-swapped">>
    [] st = "slash" -> <<"trailing-slash-variant">>
    [] st = "mirror" -> <<"mirror-origin:">> \o MIRROR_ORIGINS[n + 1]

\* variant: every loop goes round once per mirror
LoopMaxMirrors(st) == Len(MIRROR_ORIGINS)

LoopMax(st) ==
  CASE st = "original" -> maxRetries
    [] st = "swap" -> SwapTries
    [] st = "slash" -> SlashTries
    [] st = "mirror" -> Len(MIRROR_ORIGINS)

\* setTimeout(res, 400 * i)
WalkerBackoff(n) == WalkerBackoffBase * n

\* the guard of steps 2 to 5 and of the response: !fetchResult
HasResult(fr) == Truthy(fr)

\* variant: the swap and slash states do not depend on the URL being parsable
AfterStageNoParse(st, fr) ==
  IF HasResult(fr) THEN "build"
  ELSE CASE st = "original" -> "swap"
         [] st = "swap" -> "slash"
         [] st = "slash" -> "mirror"
         [] st = "mirror" -> "lastresort"

\* where the walker goes when the loop of state st is left
AfterStage(st, fr) ==
  IF HasResult(fr) THEN "build"
  ELSE CASE st = "original" -> IF Parsable(url) THEN "swap" ELSE "mirror"
         [] st = "swap" -> "slash"
         [] st = "slash" -> "mirror"
         [] st = "mirror" -> "lastresort"

\* variant: the loop does not break on success
LoopContinuesAlways(st, n, ok, fr) == n + 1 < LoopMax(st)

\* does the loop of state st go round again after try n returned ok
LoopContinues(st, n, ok, fr) ==
  /\ ~ok
  /\ n + 1 < LoopMax(st)
  /\ (st \in {"swap", "slash"} => ~HasResult(fr))

\* typeof r === "string" ? "playwright-string" : "playwright-object"
SourceOf(v) == IF v.t = "string" THEN "playwright-string" ELSE "playwright-object"
TypeOf(v) == IF v.t = "string" THEN "string" ELSE "object"

\* variant: the trail is replaced by the new record
PushReplacing(list, rec) == <<rec>>

\* attempts.push(record)
Push(list, rec) == Append(list, rec)

\* variant: the branches of the conditional exchanged
ResponseErrorSwapped(fr, msg) == IF HasResult(fr) THEN msg ELSE Null

\* error: fetchResult ? null : lastErrMsg
ResponseError(fr, msg) == IF HasResult(fr) THEN Null ELSE msg

\* String(err?.message ?? err)
MsgOf(e) == e.message

CallAnnas(u) ==
  /\ kind = "none"
  /\ kind' = "annas"
  /\ url' = u
  /\ IF Falsy(u)
       THEN /\ outcome' = RetVal([t |-> "errorOnly", error |-> <<"Invalid or missing URL">>, sourceUrl |-> u])
            /\ wpc' = "done"
       ELSE /\ wpc' = "original"
            /\ UNCHANGED outcome
  /\ UNCHANGED <<env, auxVars, resVars, i, attempts, lastErrMsg, fetchResult, finalAttemptUrl, usedFallbackOrigin,
                 trailState, orchVars, fetchVars, browserSingleton, histVars>>

\* one round of a retry loop up to the await of fetchWithPlaywright in tryFetch
WalkerTry(st) ==
  /\ wpc = st
  /\ opc = "none"
  /\ opc' = "start"
  /\ ourl' = Candidate(st, i)
  /\ ocap' = TRUE
  /\ otag' = Tag(st, i)
  /\ walkSleeps' = IF i = 0 THEN <<>>
                   ELSE IF st = "original" THEN Append(walkSleeps, WalkerBackoff(i))
                   ELSE walkSleeps
  /\ walkerCalls' = walkerCalls + 1
  /\ UNCHANGED <<env, auxVars, resVars, kind, url, outcome, walkerVars, oerr, oret, fetchVars,
                 browserSingleton, callTries, physTries, lastResp, fetchSleeps, odd>>

TryOriginal == WalkerTry("original")
TrySwap == WalkerTry("swap")
TrySlash == WalkerTry("slash")
TryMirror == WalkerTry("mirror")

\* the rest of tryFetch and of the loop round that called it
TryFetchReturn ==
  /\ kind = "annas"
  /\ opc = "ret"
  /\ LET ok == oret.t = "value"
         fr == IF ok THEN oret.v ELSE fetchResult
     IN /\ fetchResult' = fr
        /\ attempts' = Push(attempts,
                         IF ok THEN OkAttempt(ourl, SourceOf(oret.v), TypeOf(oret.v))
                         ELSE FailedAttempt(ourl, MsgOf(oret.err)))
        /\ finalAttemptUrl' = IF ok THEN ourl ELSE finalAttemptUrl
        /\ usedFallbackOrigin' = IF ok THEN otag ELSE usedFallbackOrigin
        /\ lastErrMsg' = IF ok THEN lastErrMsg ELSE MsgOf(oret.err)
        /\ IF LoopContinues(wpc, i, ok, fr)
             THEN /\ i' = i + 1
                  /\ UNCHANGED wpc
             ELSE /\ i' = 0
                  /\ wpc' = AfterStage(wpc, fr)
  /\ trailState' = Append(trailState, wpc)
  /\ opc' = "none"
  /\ UNCHANGED <<env, auxVars, resVars, kind, url, outcome, ourl, ocap, otag, oerr, oret, fetchVars,
                 browserSingleton, histVars>>

\* step 5: the direct call of fetchHTML
LastResortCall ==
  /\ wpc = "lastresort"
  /\ fpc = "none"
  /\ wpc' = "lastwait"
  /\ fpc' = "start"
  /\ furl' = url
  /\ callTries' = <<>>
  /\ walkerCalls' = walkerCalls + 1
  /\ UNCHANGED <<env, auxVars, resVars, kind, url, outcome, i, attempts, lastErrMsg, fetchResult, finalAttemptUrl,
                 usedFallbackOrigin, trailState, orchVars, attempt, lastError, fret,
                 browserSingleton, physTries, lastResp, walkSleeps, fetchSleeps, odd>>

LastResortReturn ==
  /\ wpc = "lastwait"
  /\ fpc = "ret"
  /\ LET ok == fret.t = "value"
     IN /\ fetchResult' = IF ok THEN fret.v ELSE fetchResult
        /\ attempts' = Push(attempts,
                         IF ok THEN OkAttempt(url, "http-fallback", "string")
                         ELSE FailedAttempt(url, MsgOf(fret.err)))
        /\ finalAttemptUrl' = IF ok THEN url ELSE finalAttemptUrl
        /\ usedFallbackOrigin' = IF ok THEN <<"http-fallback">> ELSE usedFallbackOrigin
        /\ lastErrMsg' = IF ok THEN lastErrMsg ELSE MsgOf(fret.err)
  /\ trailState' = Append(trailState, "lastresort")
  /\ wpc' = "build"
  /\ fpc' = "none"
  /\ UNCHANGED <<env, auxVars, resVars, kind, url, outcome, i, orchVars, furl, attempt, lastError, fret,
                 browserSingleton, histVars>>

\* rawHtml: the string itself, or the html field of an object
RawHtml(fr) ==
  CASE fr.t = "string" -> fr
    [] fr.t = "object" -> JStr(fr.html)
    [] OTHER -> JNull

BuildResponse ==
  /\ wpc = "build"
  /\ outcome' = RetVal(
       [t |-> "response",
        sourceUrl |-> url,
        finalAttemptUrl |-> finalAttemptUrl,
        usedFallbackOrigin |-> usedFallbackOrigin,
        attempts |-> attempts,
        fetchResult |-> fetchResult,
        rawHtml |-> RawHtml(fetchResult),
        rawHtmlLength |-> IF RawHtml(fetchResult).t = "string"
                            THEN BodyLen(RawHtml(fetchResult).body) ELSE 0,
        success |-> HasResult(fetchResult),
        error |-> ResponseError(fetchResult, lastErrMsg)])
  /\ wpc' = "done"
  /\ UNCHANGED <<env, auxVars, resVars, kind, url, i, attempts, lastErrMsg, fetchResult, finalAttemptUrl,
                 usedFallbackOrigin, trailState, orchVars, fetchVars,
                 browserSingleton, histVars>>

\* ================================================== GenericProvider.scrape
CallGeneric(u) ==
  /\ kind = "none"
  /\ kind' = "generic"
  /\ url' = u
  /\ opc' = "start"
  /\ ourl' = u
  /\ ocap' = FALSE
  /\ UNCHANGED <<env, auxVars, resVars, outcome, walkerVars, otag, oerr, oret, fetchVars,
                 browserSingleton, histVars>>

\* typeof result === "string" ? result : result.html, then parseGeneric
GenericReturn ==
  /\ kind = "generic"
  /\ opc = "ret"
  /\ outcome' = IF oret.t = "throw" THEN oret
                ELSE RetVal([t |-> "scrape",
                             rawHtmlLength |-> BodyLen(IF oret.v.t = "string"
                                                         THEN oret.v.body ELSE oret.v.html)])
  /\ opc' = "none"
  /\ UNCHANGED <<env, auxVars, resVars, kind, url, walkerVars, ourl, ocap, otag, oerr, oret, fetchVars,
                 browserSingleton, histVars>>

\* a direct call of fetchHTML
CallFetchHTML(u) ==
  /\ kind = "none"
  /\ kind' = "fetchHTML"
  /\ url' = u
  /\ fpc' = "start"
  /\ furl' = u
  /\ UNCHANGED <<env, auxVars, resVars, outcome, walkerVars, orchVars, attempt, lastError, fret,
                 browserSingleton, histVars>>

\* ==================================================================== Next
Next ==
  \/ \E u \in UrlArg : CallAnnas(u)
  \/ \E u \in UrlArg : CallGeneric(u)
  \/ \E u \in UrlArg : CallFetchHTML(u)
  \/ TryOriginal
  \/ TrySwap
  \/ TrySlash
  \/ TryMirror
  \/ TryFetchReturn
  \/ LastResortCall
  \/ LastResortReturn
  \/ BuildResponse
  \/ GenericReturn
  \/ OrchStart
  \/ OrchEnsure
  \/ \E ok \in BOOLEAN, b \in RenderBodies : OrchGoto(ok, b)
  \/ \E ok \in BOOLEAN, b \in RenderBodies : OrchStage(ok, b)
  \/ OrchHttp
  \/ OrchHttpReturn
  \/ FetchStart
  \/ \E r \in Responses : FetchGet(r)
  \/ FetchReturnTop

Spec == Init /\ [][Next]_vars

TypeOK ==
  /\ env \in Configs
  /\ kind \in {"none", "annas", "generic", "fetchHTML"}
  /\ wpc \in {"idle", "original", "swap", "slash", "mirror", "lastresort", "lastwait", "build", "done"}
  /\ i \in 0..Len(MIRROR_ORIGINS)
  /\ odd \in 0..MaxOdd


\* ============================================= isBlocked called on its own
\* the arguments isBlocked is called with: each word alone, and filled up to
\* 100, 1999, 2000 and 5000 characters
ProbeBodies ==
  LET words == SigWords \cup CleanWords
  IN {[word |-> w, fill |-> 0, pad |-> "x"] : w \in words}
       \cup {[word |-> w, fill |-> n - WordLen(w), pad |-> p] :
               w \in words, n \in {100, 1999, 2000, 5000}, p \in {"x", " "}}

InitBlocked ==
  /\ env \in {c \in Configs : c.fetcher = "retry" /\ c.orch = "singleton"
                                /\ ~c.disable /\ c.full /\ c.core}
  /\ InitState
  /\ html \in ProbeBodies
  /\ blocked = NoRet
  /\ cpc = NoCalls
  /\ cbrowser = NoCalls
  /\ failedHandles = {}
  /\ capRun = NoCalls
  /\ runs = NoCalls

CallIsBlocked ==
  /\ blocked = NoRet
  /\ blocked' = RetVal(isBlocked(html))
  /\ UNCHANGED <<env, kind, url, outcome, walkerVars, orchVars, fetchVars, browserSingleton,
                 histVars, resVars, html, cpc, cbrowser, failedHandles, capRun, runs>>

NextBlocked == CallIsBlocked

SpecBlocked == InitBlocked /\ [][NextBlocked]_vars

\* ============================ fetchWithPlaywright (singleton) called concurrently
\* Each caller is one call with a usable URL; a step runs from one await to
\* the next, so the read of browserSingleton and the write that follows a
\* launch are different steps.
concFrame == <<env, kind, url, outcome, walkerVars, orchVars, fetchVars, histVars,
               engineTries, renderOks, html, blocked, capRun, runs>>

InitConcurrent ==
  /\ env \in {c \in Configs : c.orch = "singleton" /\ c.fetcher = "retry" /\ ~c.disable}
  /\ InitState
  /\ html = EmptyBody
  /\ blocked = NoRet
  /\ cpc = [p \in Callers |-> "idle"]
  /\ cbrowser = [p \in Callers |-> NoBrowser]
  /\ failedHandles = {}
  /\ capRun = NoCalls
  /\ runs = NoCalls

\* the call up to the first await: let browser = browserSingleton
ConcCall(p) ==
  /\ cpc[p] = "idle"
  /\ cbrowser' = [cbrowser EXCEPT ![p] = browserSingleton]
  /\ cpc' = [cpc EXCEPT ![p] = IF browserSingleton # NoBrowser THEN "context" ELSE "launchFull"]
  /\ UNCHANGED <<concFrame, browserSingleton, live, launched, openCtx, openPages, failedHandles>>

\* import("playwright") and chromium.launch; on success browserSingleton = browser
ConcLaunchFull(p) ==
  /\ cpc[p] = "launchFull"
  /\ IF EngineWorks("playwright")
       THEN /\ launched' = launched + 1
            /\ live' = live \cup {launched + 1}
            /\ cbrowser' = [cbrowser EXCEPT ![p] = launched + 1]
            /\ browserSingleton' = launched + 1
            /\ cpc' = [cpc EXCEPT ![p] = "context"]
       ELSE /\ cpc' = [cpc EXCEPT ![p] = "launchCore"]
            /\ UNCHANGED <<launched, live, cbrowser, browserSingleton>>
  /\ UNCHANGED <<concFrame, openCtx, openPages, failedHandles>>

\* import("playwright-core") and chromium.launch; the throw when it fails too
ConcLaunchCore(p) ==
  /\ cpc[p] = "launchCore"
  /\ IF EngineWorks("sparticuz")
       THEN /\ launched' = launched + 1
            /\ live' = live \cup {launched + 1}
            /\ cbrowser' = [cbrowser EXCEPT ![p] = launched + 1]
            /\ browserSingleton' = launched + 1
            /\ cpc' = [cpc EXCEPT ![p] = "context"]
       ELSE /\ cpc' = [cpc EXCEPT ![p] = "http"]
            /\ UNCHANGED <<launched, live, cbrowser, browserSingleton>>
  /\ UNCHANGED <<concFrame, openCtx, openPages, failedHandles>>

\* browser.newContext and context.newPage
\* (on a browser that is no longer running newContext throws)
ConcContext(p) ==
  /\ cpc[p] = "context"
  /\ IF cbrowser[p] \in live
       THEN /\ openCtx' = openCtx + 1
            /\ openPages' = openPages + 1
            /\ cpc' = [cpc EXCEPT ![p] = "goto"]
            /\ UNCHANGED failedHandles
       ELSE /\ failedHandles' = failedHandles \cup {cbrowser[p]}
            /\ cpc' = [cpc EXCEPT ![p] = "http"]
            /\ UNCHANGED <<openCtx, openPages>>
  /\ UNCHANGED <<concFrame, browserSingleton, live, launched, cbrowser>>

\* page.goto ... page.content, page.close and context.close
ConcGoto(p, ok) ==
  /\ cpc[p] = "goto"
  /\ IF ok
       THEN /\ openPages' = openPages - 1
            /\ openCtx' = openCtx - 1
            /\ cpc' = [cpc EXCEPT ![p] = "done"]
       ELSE /\ cpc' = [cpc EXCEPT ![p] = "http"]
            /\ UNCHANGED <<openPages, openCtx>>
  /\ UNCHANGED <<concFrame, browserSingleton, live, launched, cbrowser, failedHandles>>

\* httpFallback(url) and the return or throw that follows
ConcHttp(p) ==
  /\ cpc[p] = "http"
  /\ cpc' = [cpc EXCEPT ![p] = "done"]
  /\ UNCHANGED <<concFrame, browserSingleton, live, launched, openCtx, openPages, cbrowser, failedHandles>>

NextConcurrent ==
  \E p \in Callers :
    \/ ConcCall(p)
    \/ ConcLaunchFull(p)
    \/ ConcLaunchCore(p)
    \/ ConcContext(p)
    \/ \E ok \in BOOLEAN : ConcGoto(p, ok)
    \/ ConcHttp(p)

SpecConcurrent == InitConcurrent /\ [][NextConcurrent]_vars

\* ------------------------------------------ a browser session that fails
\* the browser process behind a handle ends (crash, kill, out of memory);
\* the module is not told: browserSingleton keeps the handle
BrowserCrash(b) ==
  /\ b \in live
  /\ live' = live \ {b}
  /\ UNCHANGED <<concFrame, browserSingleton, launched, openCtx, openPages, cpc, cbrowser,
                 failedHandles>>

NextSession ==
  \/ NextConcurrent
  \/ \E b \in 1..MaxCallers : BrowserCrash(b)

SpecSession == InitConcurrent /\ [][NextSession]_vars

\* ------------------------------------- one render call with API capture
capFrame == <<env, kind, url, outcome, walkerVars, orchVars, fetchVars, browserSingleton,
              histVars, resVars, html, blocked, cpc, cbrowser, failedHandles, runs>>

InitCapture ==
  /\ env \in {c \in Configs : c.orch = "singleton" /\ c.fetcher = "retry" /\ ~c.disable
                                /\ c.full /\ c.core}
  /\ InitState
  /\ html = EmptyBody
  /\ blocked = NoRet
  /\ cpc = NoCalls
  /\ cbrowser = NoCalls
  /\ failedHandles = {}
  /\ capRun = CapIdle
  /\ runs = NoCalls

\* fetchWithPlaywright(url, {enableApiCapture}) up to page.goto: the browser,
\* the context and the page are there, the listener is installed when asked for
CapCall(on) ==
  /\ capRun.pc = "idle"
  /\ capRun' = [capRun EXCEPT !.pc = "goto", !.enableApiCapture = on]
  /\ UNCHANGED capFrame

\* the page receives a response while it is open
CapResponse(res) ==
  /\ capRun.pc \in {"goto", "http"}
  /\ Len(capRun.arrived) < MaxResponses
  /\ capRun' = [capRun EXCEPT !.arrived = Append(@, res)]
  /\ UNCHANGED capFrame

\* the listener's promise for response n settles; it may do so in any order
\* and after the call has returned
CapListener(n) ==
  /\ capRun.enableApiCapture
  /\ n \in DOMAIN capRun.arrived
  /\ \A k \in DOMAIN capRun.handled : capRun.handled[k] # n
  /\ LET out == Listener(capRun.arrived[n])
     IN capRun' = [capRun EXCEPT !.handled = Append(@, n),
                                 !.apiCapture = @ \o out.push,
                                 !.raised = @ \/ out.raised]
  /\ UNCHANGED capFrame

\* page.goto ... page.content, the closes and the return; the object returned
\* holds the apiCapture array itself, which is capRun.apiCapture
CapGoto(ok, b) ==
  /\ capRun.pc = "goto"
  /\ IF ok
       THEN capRun' = [capRun EXCEPT !.pc = "done",
                                     !.nav = RetVal(b),
                                     !.ret = RetVal(IF capRun.enableApiCapture
                                                      THEN [t |-> "object", html |-> b]
                                                      ELSE JStr(b))]
       ELSE capRun' = [capRun EXCEPT !.pc = "http", !.nav = RetThrow(NavError)]
  /\ UNCHANGED capFrame

\* the catch: httpFallback(url), its page returned or the combined error thrown
CapHttp(ok, b) ==
  /\ capRun.pc = "http"
  /\ IF ok
       THEN capRun' = [capRun EXCEPT !.pc = "done", !.http = RetVal(b), !.ret = RetVal(JStr(b))]
       ELSE capRun' = [capRun EXCEPT !.pc = "done",
                                     !.http = RetThrow(Err("Error", <<"Empty response body">>)),
                                     !.ret = RetThrow(BothFailed(NavError,
                                                Err("Error", <<"Empty response body">>)))]
  /\ UNCHANGED capFrame

NextCapture ==
  \/ \E on \in BOOLEAN : CapCall(on)
  \/ \E res \in CapResponses : CapResponse(res)
  \/ \E n \in 1..MaxResponses : CapListener(n)
  \/ \E ok \in BOOLEAN, b \in RenderBodies : CapGoto(ok, b)
  \/ \E ok \in BOOLEAN, b \in RenderBodies : CapHttp(ok, b)

SpecCapture == InitCapture /\ [][NextCapture]_vars

\* ================================================================= claims
U1 == <<"https:", "//", "annas-archive.org", "/md5", "/xyz">>

Rank(st) ==
  CASE st = "original" -> 1 [] st = "swap" -> 2 [] st = "slash" -> 3
    [] st = "mirror" -> 4 [] st = "lastresort" -> 5

IsSuffix(a, b) == Len(a) <= Len(b) /\ SubSeq(b, Len(b) - Len(a) + 1, Len(b)) = a
IsPrefix(a, b) == Len(a) <= Len(b) /\ SubSeq(b, 1, Len(a)) = a

RECURSIVE Collapse(_)
\* a sequence with runs of equal neighbours reduced to one element
Collapse(q) ==
  IF Len(q) <= 1 THEN q
  ELSE IF q[1] = q[2] THEN Collapse(Tail(q))
  ELSE <<q[1]>> \o Collapse(Tail(q))

AllFailed == \A j \in DOMAIN attempts : ~attempts[j].success
WalkerDone == kind = "annas" /\ wpc = "done" /\ ~Falsy(url)
\* the entries of the trail made by walker states 1 to 4
RECURSIVE UrlsBefore(_, _)
UrlsBefore(j, r) ==
  IF j > Len(attempts) \/ Rank(trailState[j]) >= r THEN <<>>
  ELSE <<attempts[j].attemptUrl>> \o UrlsBefore(j + 1, r)

\* C1: the walker states are attempted in the order Original, ProtocolSwap,
\* TrailingSlashVariant, MirrorOrigin, RawHttpLastResort; an attempt of a later
\* state comes only after all attempts of earlier states failed; no attempt
\* follows a successful attempt; and when every fetch fails for
\* https://annas-archive.org/md5/xyz the trail visits the original URL, its
\* http variant, its trailing-slash variant and one URL per mirror, in this
\* order, and the outcome has success = false.
C1_StrictOrder ==
  kind = "annas" =>
    /\ \A j, k \in DOMAIN attempts :
         j < k => /\ Rank(trailState[j]) <= Rank(trailState[k])
                  /\ (Rank(trailState[j]) < Rank(trailState[k]) => ~attempts[j].success)
    /\ \A j \in DOMAIN attempts : attempts[j].success => j = Len(attempts)
    /\ (WalkerDone /\ url = U1 /\ AllFailed) =>
         /\ Collapse(UrlsBefore(1, 5)) =
              << U1,
                 <<"http:", "//", "annas-archive.org", "/md5", "/xyz">>,
                 <<"https:", "//", "annas-archive.org", "/md5", "/xyz", "/">>,
                 <<"https:", "//", "annas-archive.li", "/md5", "/xyz">>,
                 <<"https:", "//", "annas-archive.org", "/md5", "/xyz">>,
                 <<"https:", "//", "annas-archive.se", "/md5", "/xyz">> >>
         /\ outcome.v.success = FALSE

\* C2: the walker never raises for an ordinary fetch failure: no exception
\* escapes scrape, and when every attempt of a run with a string URL failed
\* the response has success = false and error set to the message of the last
\* failure.
C2_NeverRaises ==
  kind = "annas" =>
    /\ outcome.t # "throw"
    /\ (WalkerDone /\ AllFailed) =>
         /\ outcome.t = "value"
         /\ outcome.v.t = "response"
         /\ outcome.v.success = FALSE
         /\ outcome.v.error # Null
         /\ outcome.v.error = attempts[Len(attempts)].error

C2_Witness ==
  WalkerDone /\ AllFailed /\ Len(attempts) = 10 /\ outcome.t = "value"


AllTriesFailed == callTries # <<>> /\ \A j \in DOMAIN callTries : ~callTries[j].ok
GenericDone == kind = "generic" /\ outcome # NoRet /\ ~Falsy(url)

WalkerCallOpen ==
  \/ wpc \in {"original", "swap", "slash", "mirror"} /\ opc # "none"
  \/ wpc = "lastwait"

C5_Step ==
  /\ IsPrefix(attempts, attempts')
  /\ Len(attempts') <= Len(attempts) + 1
  /\ kind' = "annas" =>
       Len(attempts') = walkerCalls' - (IF WalkerCallOpen' THEN 1 ELSE 0)
  /\ Len(attempts') = Len(attempts) + 1 =>
       attempts'[Len(attempts')].attemptUrl = (IF wpc = "lastwait" THEN furl ELSE ourl)

Successes == {j \in DOMAIN attempts : attempts[j].success}

\* C6: in every terminal outcome the trail has at most one successful entry,
\* it is the last entry, and the outcome's success flag is true exactly when
\* there is one -- whatever the successful fetch returned.
C6_OneSuccessEndsRun ==
  WalkerDone =>
    /\ Cardinality(Successes) <= 1
    /\ \A j \in Successes : j = Len(attempts)
    /\ outcome.v.success <=> Successes # {}


HttpTries == {j \in DOMAIN callTries : callTries[j].tier = "http"}
RenderTries == {j \in DOMAIN callTries : callTries[j].tier = "render"}

\* the navigations one orchestration may spend in this deployment
RenderBudget ==
  IF env.orch = "singleton"
    THEN IF env.full \/ env.core THEN 1 ELSE 0
    ELSE IF env.disable THEN 0
    ELSE (IF env.vercel /\ env.core THEN 1 ELSE 0)
           + (IF env.full THEN 1 ELSE 0)
           + (IF env.core THEN 1 ELSE 0)

HttpTags == {"http", "http-fallback", "raw-http"}

\* C8: with a renderer that fails on every call and an HTTP fetcher that
\* succeeds on its first call, the run ends in a success outcome whose trail
\* is two failed render entries followed by one successful entry tagged as
\* the raw-HTTP tier.
C8_RenderFailsHttpSucceeds ==
  ( /\ WalkerDone
    /\ physTries = Len(callTries)
    /\ RenderTries # {}
    /\ \A k \in RenderTries : ~callTries[k].ok
    /\ HttpTries # {}
    /\ \A j \in HttpTries : callTries[j].ok ) =>
      /\ outcome.v.success
      /\ Len(attempts) = 3
      /\ ~attempts[1].success /\ ~attempts[2].success
      /\ attempts[3].success
      /\ attempts[3].source \in HttpTags

Count(q, x) == Cardinality({j \in DOMAIN q : q[j] = x})
NonDecreasing(q) == \A j, k \in DOMAIN q : j < k => q[j] <= q[k]

C10_FetchRejectsBadResponses ==
  (fpc \in {"ret", "none"} /\ fret # NoRet /\ ~Falsy(furl)) =>
    /\ fret.t = "value" =>
         /\ lastResp.t = "resp"
         /\ lastResp.status < 400
         /\ fret.v.body = lastResp.body
         /\ BodyLen(fret.v.body) > 0
         /\ ~isBlocked(fret.v.body)
    /\ fret.t = "throw" => IsSuffix(lastError.message, fret.err.message)

\* C11: isBlocked(body) is true exactly when the lowercased body contains one
\* of the five signatures or the body is shorter than 2000 characters: a body
\* with a signature is blocked whatever its length and letter case, a body of
\* 5000 characters without a signature is not blocked, and a body of 100
\* characters is blocked.
C11_BlockedIff ==
  blocked # NoRet =>
    /\ blocked.v <=> (html.word \in SigWords \/ BodyLen(html) < 2000)
    /\ html.word \in SigWords => blocked.v
    /\ (html.word \in CleanWords /\ BodyLen(html) = 5000) => ~blocked.v
    /\ BodyLen(html) = 100 => blocked.v

C11_Witness ==
  /\ blocked = RetVal(TRUE)
  /\ html.word = "<p>VERIFY YOU ARE HUMAN!"
  /\ BodyLen(html) = 5000

\* C12: at most one browser is running at any time, for every interleaving
\* of concurrent fetchWithPlaywright calls: calls that start while the shared
\* handle is empty do not each launch a browser, and every running browser is
\* the one the shared handle refers to.
C12_OneLiveBrowser ==
  /\ Cardinality(live) <= 1
  /\ launched <= 1
  /\ live \subseteq {browserSingleton}

\* C13: every page and browsing context a render call opened is closed when
\* the call returns or throws, whatever the exit path; no context and no page
\* is open after any sequence of completed calls.
C13_NothingLeftOpen ==
  opc \in {"ret", "none"} => openCtx = 0 /\ openPages = 0

\* C14: a render call never closes the shared browser: once a browser has
\* been launched, every later render call, successful or failed, uses that
\* same browser, launches no other one and leaves it running when it ends.
C14_SessionKeptAndReused ==
  launched >= 1 =>
    /\ launched = 1
    /\ live = {1}
    /\ browserSingleton = 1

\* the launches of the local engine that failed in the current call
LocalFailures == {j \in DOMAIN engineTries : engineTries[j] = EngineTry("playwright", FALSE)}
ServerlessAfter(j) == {k \in DOMAIN engineTries : k > j /\ engineTries[k].engine = "sparticuz"}
\* the call is past its browser launches
LaunchesOver == opc \in {"goto", "http", "httpwait", "ret"}

C17_DisableSkipsRendering ==
  env.disable =>
    /\ launched = 0
    /\ RenderTries = {}
    /\ (opc = "ret" /\ ~Falsy(ourl)) => oret = fret

\* the tag a walker state gives its attempts
NamesState(tag, st) ==
  CASE st = "original" -> tag = <<"original">>
    [] st = "swap" -> tag = <<"protocol-swapped">>
    [] st = "slash" -> tag = <<"trailing-slash-variant">>
    [] st = "mirror" -> \E k \in DOMAIN MIRROR_ORIGINS : tag = <<"mirror-origin:">> \o MIRROR_ORIGINS[k]
    [] st = "lastresort" -> tag = <<"http-fallback">>

\* C18: the terminal outcome agrees with the trail.  On success
\* finalAttemptUrl is the URL of the successful entry, usedFallbackOrigin
\* names the state that made it and error is null; on failure
\* finalAttemptUrl is null and error is the message of the last failed entry;
\* rawHtmlLength is the length of rawHtml, and 0 when rawHtml is null.
C18_OutcomeMatchesTrail ==
  WalkerDone =>
    /\ outcome.v.success =>
         /\ Successes # {}
         /\ \A j \in Successes :
              /\ outcome.v.finalAttemptUrl = attempts[j].attemptUrl
              /\ NamesState(outcome.v.usedFallbackOrigin, trailState[j])
         /\ outcome.v.error = Null
    /\ ~outcome.v.success =>
         /\ outcome.v.finalAttemptUrl = Null
         /\ outcome.v.error = attempts[Len(attempts)].error
    /\ outcome.v.rawHtmlLength =
         (IF outcome.v.rawHtml = JNull THEN 0 ELSE BodyLen(outcome.v.rawHtml.body))

U2 == <<"http:", "//", "annas-archive.li", "/search", "/", "?q=1", "#top">>
\* the position of trail entry j among the entries of its state
NthOfState(j) == Cardinality({m \in 1..j : trailState[m] = trailState[j]})
\* a path with its trailing slash removed if it has one, added if not
SlashToggled(path) ==
  IF EndsWithSlash(path) THEN SubSeq(path, 1, Len(path) - 1) ELSE path \o <<"/">>

\* C19: when a walk over a parsable URL has ended, its trail shows that the
\* k-th MirrorOrigin candidate was the origin of the k-th configured mirror
\* followed by the original path, query and fragment, and that no mirror was
\* tried after one succeeded; that the ProtocolSwap candidate had the host,
\* path, query and fragment of the original and the other one of http and
\* https; and that the TrailingSlashVariant candidate had the origin, query
\* and fragment of the original and its path with the trailing slash added
\* if absent, removed if present.  (The trail is only ever appended to, so
\* the trail at the end holds every candidate of the walk.)
C19_CandidateUrls ==
  (kind = "annas" /\ wpc = "done" /\ Parsable(url)) =>
    LET o == ParseUrl(url)
    IN \A j \in DOMAIN attempts :
         LET c == attempts[j].attemptUrl
             p == ParseUrl(c)
         IN /\ trailState[j] = "mirror" =>
                 /\ Parsable(c)
                 /\ p.origin = MIRROR_ORIGINS[NthOfState(j)]
                 /\ p.pathname = o.pathname
                 /\ p.search = o.search
                 /\ p.hash = o.hash
                 /\ \A m \in 1..(j - 1) : trailState[m] = "mirror" => ~attempts[m].success
            /\ trailState[j] = "swap" =>
                 /\ Parsable(c)
                 /\ {p.protocol, o.protocol} = {"http:", "https:"}
                 /\ p.host = o.host
                 /\ p.pathname = o.pathname
                 /\ p.search = o.search
                 /\ p.hash = o.hash
            /\ trailState[j] = "slash" =>
                 c = o.origin \o SlashToggled(o.pathname) \o o.search \o o.hash

C19_Witness ==
  /\ kind = "annas" /\ wpc = "done"
  /\ url = U2
  /\ Count(trailState, "swap") = 2
  /\ Count(trailState, "slash") = 2
  /\ Count(trailState, "mirror") = 2
  /\ attempts[Len(attempts)].success
  /\ trailState[Len(attempts)] = "mirror"

\* C20: for a URL that cannot be parsed the walker does not raise; it makes
\* no ProtocolSwap and no TrailingSlashVariant attempt, and the k-th
\* MirrorOrigin attempt is on the k-th mirror origin string followed by the
\* input string as given; when everything fails each mirror was attempted.
C20_UnparsableUrl ==
  (kind = "annas" /\ ~Falsy(url) /\ ~Parsable(url)) =>
    /\ outcome.t # "throw"
    /\ wpc \notin {"swap", "slash"}
    /\ \A j \in DOMAIN attempts :
         /\ trailState[j] \notin {"swap", "slash"}
         /\ trailState[j] = "mirror" =>
              attempts[j].attemptUrl = MIRROR_ORIGINS[NthOfState(j)] \o url
    /\ (wpc = "done" /\ AllFailed) =>
         /\ outcome.t = "value"
         /\ Count(trailState, "mirror") = Len(MIRROR_ORIGINS)

C20_Witness ==
  /\ kind = "annas" /\ wpc = "done"
  /\ url = <<"annas-archive.org", "/md5", "/xyz">>
  /\ AllFailed
  /\ trailState = <<"original", "original", "mirror", "mirror", "mirror", "lastresort">>
  /\ attempts[4].attemptUrl =
       <<"https:", "//", "annas-archive.org", "annas-archive.org", "/md5", "/xyz">>


\* C21: once the shared browser handle has been found unable to open a
\* context, no later render call takes that handle again: a call that starts
\* afterwards launches a new browser, so a renderer that works again is used
\* instead of every later call falling through to the HTTP tier.
C21_FailedSessionReplaced ==
  [][\A p \in Callers :
       (cpc[p] = "idle" /\ cpc'[p] # "idle") => cbrowser'[p] \notin failedHandles]_vars

\* what the claim says a handled response leaves in the capture list
CaptureOf(res) ==
  IF res.req /\ CaptureMatches(res.url) /\ res.body = "json"
    THEN <<[url |-> res.url, json |-> TRUE]>>
  ELSE IF res.req /\ CaptureMatches(res.url) /\ res.body = "text"
    THEN <<[url |-> res.url, text |-> TRUE]>>
  ELSE <<>>

RECURSIVE CapturesOf(_)
CapturesOf(order) ==
  IF order = <<>> THEN <<>>
  ELSE CaptureOf(capRun.arrived[Head(order)]) \o CapturesOf(Tail(order))

\* C22: with API capture enabled, a matching response whose body cannot be
\* parsed as JSON is recorded as {url, text}, not {url, json}; one whose body
\* cannot be read at all is skipped; no exception leaves the listener; and
\* what the call returns or throws is fixed by the navigation and, when that
\* failed, by the HTTP fetcher, whatever responses were captured.
C22_CaptureDegrades ==
  /\ capRun.apiCapture = CapturesOf(capRun.handled)
  /\ ~capRun.raised
  /\ ~capRun.enableApiCapture => capRun.apiCapture = <<>>
  /\ capRun.pc = "done" =>
       /\ capRun.nav.t = "value" =>
            /\ capRun.ret.t = "value"
            /\ capRun.ret.v = (IF capRun.enableApiCapture
                                 THEN [t |-> "object", html |-> capRun.nav.v]
                                 ELSE JStr(capRun.nav.v))
       /\ (capRun.nav.t = "throw" /\ capRun.http.t = "value") =>
            capRun.ret = RetVal(JStr(capRun.http.v))
       /\ (capRun.nav.t = "throw" /\ capRun.http.t = "throw") =>
            capRun.ret = RetThrow(BothFailed(capRun.nav.err, capRun.http.err))

C22_Witness ==
  /\ capRun.pc = "done"
  /\ capRun.enableApiCapture
  /\ capRun.nav.t = "value"
  /\ capRun.arrived = <<[req |-> TRUE, url |-> ApiUrl, body |-> "text"],
                        [req |-> TRUE, url |-> JsonUrl, body |-> "none"]>>
  /\ Len(capRun.handled) = 2
  /\ capRun.apiCapture = <<[url |-> ApiUrl, text |-> TRUE]>>

\* loop rounds LoopMax(st) allows from the states after st
RoundsAfter(st) ==
  CASE st = "original" -> SwapTries + SlashTries + Len(MIRROR_ORIGINS)
    [] st = "swap" -> SlashTries + Len(MIRROR_ORIGINS)
    [] st = "slash" -> Len(MIRROR_ORIGINS)
    [] st = "mirror" -> 0

\* steps the fetchHTML frame can still take
FetchLeft ==
  CASE fpc = "none" -> 0
    [] fpc = "ret" -> 1
    [] fpc = "get" -> (MAX_RETRIES + 1 - attempt) + 1
    [] fpc = "start" -> MAX_RETRIES + 2

\* steps the fetchWithPlaywright frame can still take, fetchHTML apart
OrchLeft ==
  CASE opc = "none" -> 0
    [] opc = "ret" -> 1
    [] opc = "httpwait" -> 2
    [] opc = "http" -> MAX_RETRIES + 5
    [] opc \in {"core2", "goto"} -> MAX_RETRIES + 6
    [] opc \in {"full", "ensure"} -> MAX_RETRIES + 7
    [] opc = "serverless" -> MAX_RETRIES + 8
    [] opc = "start" -> MAX_RETRIES + 9

\* steps one loop round takes at most: the call, the frames, the return
RoundCost == MAX_RETRIES + 11

\* steps the walker can still take, the frames in progress apart
WalkerLeft ==
  CASE wpc \in {"idle", "done"} -> 0
    [] wpc = "build" -> 1
    [] wpc = "lastwait" -> 2
    [] wpc = "lastresort" -> MAX_RETRIES + 5
    [] OTHER ->
         MAX_RETRIES + 5
           + RoundCost * (LoopMax(wpc) - i + RoundsAfter(wpc) - (IF opc = "none" THEN 0 ELSE 1))

\* a bound on the number of steps left, for every state
Variant ==
  IF kind = "none" THEN RoundCost * 10 + MAX_RETRIES + 6
  ELSE WalkerLeft + OrchLeft + FetchLeft

\* C23: a call of AnnasProvider.scrape ends with an outcome, provided each
\* fetch call ends: every step lowers a bound on the number of steps left,
\* the bound is never negative, and it is zero exactly when the call has its
\* outcome.  The trail never has more than 2 + 2 + 2 + 3 + 1 = 10 entries,
\* and fetchHTML ends after at most 3 HTTP tries.
C23_Terminates ==
  /\ [][Variant' < Variant]_vars
  /\ [](Variant >= 0)
  /\ []((Variant = 0) <=> (outcome # NoRet))
  /\ [](Len(attempts) <= 2 + 2 + 2 + Len(MIRROR_ORIGINS) + 1)
  /\ [](Len(attempts) <= 10)
  /\ [](Cardinality(HttpTries) <= 3)
  /\ [](fpc = "get" => attempt <= MAX_RETRIES)

C23_Witness ==
  /\ kind = "annas"
  /\ wpc = "done"
  /\ outcome # NoRet
  /\ Len(attempts) = 10
  /\ ~HasResult(fetchResult)
  /\ env.fetcher = "retry"
  /\ Cardinality(HttpTries) = 3

\* C24: a backoff delay is spent only between tries: when fetchHTML returns
\* or throws it has slept fewer times than it made HTTP tries, and the
\* Original state of the walker has slept fewer times than it made tries, so
\* no delay follows the last failed try.
C24_DelayOnlyBetweenTries ==
  /\ fpc = "ret" =>
       \/ fetchSleeps = <<>>
       \/ Len(fetchSleeps) < Cardinality(HttpTries)
  /\ (kind = "annas" /\ wpc \notin {"idle", "original"}) =>
       \/ walkSleeps = <<>>
       \/ Len(walkSleeps) < Count(trailState, "original")

\* ------------------------------------------- two walker runs side by side
runFrame == <<env, kind, url, outcome, walkerVars, orchVars, fetchVars, browserSingleton,
              histVars, resVars, html, blocked, cpc, cbrowser, failedHandles, capRun>>

\* the URLs the two calls are made with
RunUrls == {U1, U2, <<"annas-archive.org", "/md5", "/xyz">>}

InitRuns ==
  /\ env \in {c \in Configs : c.orch = "singleton" /\ c.fetcher = "retry" /\ ~c.disable
                                /\ c.full /\ c.core}
  /\ InitState
  /\ html = EmptyBody
  /\ blocked = NoRet
  /\ cpc = NoCalls
  /\ cbrowser = NoCalls
  /\ failedHandles = {}
  /\ capRun = NoCalls
  /\ runs = [r \in Runs |-> RunIdle]

\* the candidate URL of try number n (0-based) of a walker state, for input u
CandidateOf(u, st, n) ==
  CASE st = "original" -> u
    [] st = "swap" -> SwappedUrl(u)
    [] st = "slash" -> SlashVariant(u)
    [] st = "mirror" -> normalizeUrlCandidate(u, MIRROR_ORIGINS[n + 1])
    [] st = "lastresort" -> u

\* where the walker goes when the loop of state st is left, for input u
AfterStageOf(u, st, fr) ==
  IF HasResult(fr) THEN "build"
  ELSE CASE st = "original" -> IF Parsable(u) THEN "swap" ELSE "mirror"
         [] st = "swap" -> "slash"
         [] st = "slash" -> "mirror"
         [] st = "mirror" -> "lastresort"

\* what a fetch of attemptUrl can come back with: a page as a string, a page
\* with captures, or an error that names the URL
FetchResults(attemptUrl, st) ==
  {RetVal(JStr(GoodBody)), RetThrow(Err("Error", <<"net::ERR_FAILED at ">> \o attemptUrl))}
    \cup (IF st = "lastresort" THEN {} ELSE {RetVal(JObj(GoodBody))})

\* variant: the trail is one array of the module, here the one run 1 holds
TrailOfShared(r) == runs[1].attempts

\* the attempts array the closure of run r holds
TrailOf(r) == runs[r].attempts

\* scrape(u) up to the first loop
RunCall(r, u) ==
  /\ runs[r].pc = "idle"
  /\ runs' = [runs EXCEPT ![r].pc = "original", ![r].url = u]
  /\ UNCHANGED runFrame

\* one round of a loop, or step 5, up to the await of the fetch
RunTry(r) ==
  /\ runs[r].pc \in {"original", "swap", "slash", "mirror", "lastresort"}
  /\ ~runs[r].waiting
  /\ runs' = [runs EXCEPT ![r].waiting = TRUE,
                          ![r].attemptUrl = CandidateOf(runs[r].url, runs[r].pc, runs[r].i),
                          ![r].tag = IF runs[r].pc = "lastresort" THEN <<"http-fallback">>
                                     ELSE Tag(runs[r].pc, runs[r].i)]
  /\ UNCHANGED runFrame

\* the fetch settles: the rest of tryFetch (or of step 5) and of the loop round
RunTryReturn(r, res) ==
  /\ runs[r].waiting
  /\ res \in FetchResults(runs[r].attemptUrl, runs[r].pc)
  /\ LET me == runs[r]
         ok == res.t = "value"
         fr == IF ok THEN res.v ELSE me.fetchResult
         rec == IF ~ok THEN FailedAttempt(me.attemptUrl, MsgOf(res.err))
                ELSE IF me.pc = "lastresort" THEN OkAttempt(me.attemptUrl, "http-fallback", "string")
                ELSE OkAttempt(me.attemptUrl, SourceOf(res.v), TypeOf(res.v))
         more == me.pc # "lastresort" /\ LoopContinues(me.pc, me.i, ok, fr)
     IN runs' = [runs EXCEPT
          ![r].waiting = FALSE,
          ![r].fetchResult = fr,
          ![r].attempts = Push(TrailOf(r), rec),
          ![r].finalAttemptUrl = IF ok THEN me.attemptUrl ELSE @,
          ![r].usedFallbackOrigin = IF ok THEN me.tag ELSE @,
          ![r].lastErrMsg = IF ok THEN @ ELSE MsgOf(res.err),
          ![r].made = Append(@, [url |-> me.attemptUrl, res |-> res]),
          ![r].i = IF more THEN me.i + 1 ELSE 0,
          ![r].pc = IF more THEN me.pc
                    ELSE IF me.pc = "lastresort" THEN "build"
                    ELSE AfterStageOf(me.url, me.pc, fr)]
  /\ UNCHANGED runFrame

\* the response object is built and returned
RunBuild(r) ==
  /\ runs[r].pc = "build"
  /\ runs' = [runs EXCEPT
       ![r].pc = "done",
       ![r].outcome = RetVal([sourceUrl |-> runs[r].url,
                              finalAttemptUrl |-> runs[r].finalAttemptUrl,
                              attempts |-> TrailOf(r),
                              success |-> HasResult(runs[r].fetchResult),
                              error |-> ResponseError(runs[r].fetchResult, runs[r].lastErrMsg)])]
  /\ UNCHANGED runFrame

NextRuns ==
  \E r \in Runs :
    \/ \E u \in RunUrls : RunCall(r, u)
    \/ RunTry(r)
    \/ \E res \in UNION {FetchResults(runs[q].attemptUrl, runs[q].pc) : q \in Runs} :
         RunTryReturn(r, res)
    \/ RunBuild(r)

SpecRuns == InitRuns /\ [][NextRuns]_vars

\* the fetches of run r that returned a page
MadeOk(r) == {j \in DOMAIN runs[r].made : runs[r].made[j].res.t = "value"}

====
